---- MODULE Spec2Model ----
(***************************************************************************)
(* A model of pyflow's command dispatcher and sync engine (src/main.rs):   *)
(* the install / uninstall commands of main, sync_deps with its install    *)
(* loop, uninstall loop and lock write, the artifact selection that        *)
(* sync_deps performs for every package it has to install, the reading and *)
(* writing of pyproject.toml, the environment check with create_venv and   *)
(* its child processes, and the new command.                               *)
(*                                                                         *)
(* Text is modelled as TLA+ strings where it is only compared or           *)
(* concatenated, and as tuples of one-character strings where the code     *)
(* looks inside it (to_lowercase, contains).  Option values are tuples:    *)
(* None is <<>> and Some(x) is <<x>>.  A Version is the triple             *)
(* <<major, minor, patch>>.                                                *)
(***************************************************************************)
EXTENDS Integers, Sequences, FiniteSets, TLC

VARIABLES
    pc,                   \* position of the running command
    run,                  \* number of the command invocation
    command,              \* the subcommand: "install" or "uninstall"
    packages,             \* the subcommand's package arguments, parsed
    manifest,             \* pyproject.toml: the dependency requirements
    lockFile,             \* pypackage.lock: None, or Some(Lock)
    lib,                  \* the library directory: set of (name, version)
    index,                \* the package index: what resolution yields
    os,                   \* sync_deps: the host Os (fixed at build time)
    python_vers,          \* sync_deps: the interpreter version
    reqs,                 \* sync_deps: the requirements to sync
    installed,            \* sync_deps: the inventory read before the sync
    resolved,             \* sync_deps: the resolved set
    i,                    \* sync_deps: index of the install loop
    j,                    \* sync_deps: index of the uninstall loop
    data,                 \* install loop: the release records fetched
    compatible_releases,  \* install loop: the wheels classified compatible
    source_releases,      \* install loop: the sdists
    best_release,         \* install loop: Some(release handed on)
    package_type,         \* install loop: "Wheel" or "Source"
    events,               \* what this invocation has done so far, in order
    failure,              \* why the command ended early, "" if it did not
    fname,                \* os_from_wheel_fname: the filename handed in
    fname_os,             \* os_from_wheel_fname: Some(what the call gave)
    os_token,             \* Os::from_str: the text handed in
    os_parsed,            \* Os::from_str: Some(what the call gave)
    cfg_file,             \* pyproject.toml: None, or Some(its lines)
    cfg,                  \* main: the Config in memory
    cfg_written,          \* Some(the Config write_file was called on)
    venvs,                \* __pypackages__: the versions that have a .venv
    alias,                \* the interpreter find_py_alias finds, or None
    vers_path,            \* main: Some(version directory of this command)
    created_vers,         \* Some(version directory create_venv made)
    venv_child,           \* the venv creation process
    wheel_child,          \* the `pip install wheel` process
    project,              \* the path `name` of the new command, or None
    project_before        \* that path when the new command started

osVars == <<fname, fname_os, os_token, os_parsed>>
cfgVars == <<cfg_file, cfg, cfg_written>>
envVars == <<venvs, alias, vers_path, created_vers, venv_child, wheel_child>>
newVars == <<project, project_before>>

vars == <<pc, run, command, packages, manifest, lockFile, lib, index, os,
          python_vers, reqs, installed, resolved, i, j, data,
          compatible_releases, source_releases, best_release, package_type,
          events, failure, osVars, cfgVars, envVars, newVars>>

(***************************************************************************)
(* Bounds of the model.                                                    *)
(***************************************************************************)
MaxRels == 2        \* release records per index response, selection alone
MaxSyncRels == 1    \* release records per index response during a sync
MaxInstalled == 2   \* packages in the library directory at the start
MaxRuns == 2        \* command invocations in a row
MaxManifest == 2    \* requirements of a manifest, commands alone
MaxCli == 2         \* package arguments of a command, commands alone
MaxLines == 3       \* lines of a pyproject.toml that is read
MaxDeps == 2        \* requirements of a Config that is written

None == <<>>
Some(x) == <<x>>

RECURSIVE SeqsUpTo(_, _)
SeqsUpTo(S, n) ==
    IF n = 0 THEN {<<>>}
    ELSE LET shorter == SeqsUpTo(S, n - 1)
         IN  shorter \cup {Append(s, x) : s \in shorter, x \in S}

Range(s) == {s[k] : k \in DOMAIN s}

(***************************************************************************)
(* Text.                                                                   *)
(***************************************************************************)
LowerChar(c) ==
    CASE c = "A" -> "a"
      [] c = "B" -> "b"
      [] OTHER -> c

ToLowercase(s) == [k \in DOMAIN s |-> LowerChar(s[k])]

RECURSIVE Str(_)
Str(s) == IF s = <<>> THEN "" ELSE s[1] \o Str(Tail(s))

Contains(s, sub) ==
    \E k \in 0..(Len(s) - Len(sub)) : SubSeq(s, k + 1, k + Len(sub)) = sub

(***************************************************************************)
(* Os and Os::from_str.  A result is <<"Ok", value>> or <<"Err">>.         *)
(***************************************************************************)
Ok(x) == <<"Ok", x>>
Err == <<"Err">>
IsOk(r) == r[1] = "Ok"

Chars(w) ==
    CASE w = "manylinux1_i686" ->
           <<"m","a","n","y","l","i","n","u","x","1","_","i","6","8","6">>
      [] w = "manylinux1_x86_64" ->
           <<"m","a","n","y","l","i","n","u","x","1","_","x","8","6","_","6","4">>
      [] w = "manylinux2010_x86_64" ->
           <<"m","a","n","y","l","i","n","u","x","2","0","1","0","_","x","8","6","_","6","4">>
      [] w = "win32" -> <<"w","i","n","3","2">>
      [] w = "win_amd64" -> <<"w","i","n","_","a","m","d","6","4">>
      [] w = "darwin" -> <<"d","a","r","w","i","n">>
      [] w = "any" -> <<"a","n","y">>
      [] w = "macosx_10_9_x86_64" ->
           <<"m","a","c","o","s","x","_","1","0","_","9","_","x","8","6","_","6","4">>
      [] w = "mac" -> <<"m","a","c">>

OsFromStr(s) ==
    CASE s = Chars("manylinux1_i686") -> Ok("Linux32")
      [] s = Chars("manylinux1_x86_64") -> Ok("Linux")
      [] s = Chars("win32") -> Ok("Windows32")
      [] s = Chars("win_amd64") -> Ok("Windows")
      [] s = Chars("darwin") -> Ok("Mac")
      [] s = Chars("any") -> Ok("Any")
      [] OTHER -> IF Contains(s, Chars("mac")) THEN Ok("Mac") ELSE Err

(***************************************************************************)
(* os_from_wheel_fname.  The regular expression of line 446 is, from start *)
(* to end of the filename: one or more groups of any text followed by a    *)
(* dash, the shortest text first and as many groups as possible; then the  *)
(* captured text, as long as possible; then any one character; then whl.   *)
(* So the filename has to end in whl after one more character, the capture *)
(* starts after the last dash that leaves room for that ending, and it     *)
(* ends before that one character.  Os::from_str's error is unwrapped with *)
(* expect, so it is a panic and not an Err of os_from_wheel_fname.         *)
(***************************************************************************)
Last(S) == CHOOSE p \in S : \A q \in S : q <= p

(* Variant: the capture starts after the first dash.                       *)
OsFromWheelFnameFirstDash(filename) ==
    LET n == Len(filename)
        dashes == {p \in 1..(n - 4) : filename[p] = "-"}
    IN  IF dashes # {} /\ SubSeq(filename, n - 2, n) = <<"w", "h", "l">>
        THEN LET parsed == SubSeq(filename, (CHOOSE p \in dashes : \A q \in dashes : p <= q) + 1,
                                  n - 4)
             IN  IF IsOk(OsFromStr(parsed)) THEN OsFromStr(parsed) ELSE <<"Panic">>
        ELSE Err

OsFromWheelFname(filename) ==
    LET n == Len(filename)
        dashes == {p \in 1..(n - 4) : filename[p] = "-"}
    IN  IF dashes # {} /\ SubSeq(filename, n - 2, n) = <<"w", "h", "l">>
        THEN LET parsed == SubSeq(filename, Last(dashes) + 1, n - 4)
             IN  IF IsOk(OsFromStr(parsed)) THEN OsFromStr(parsed) ELSE <<"Panic">>
        ELSE Err

(***************************************************************************)
(* Version and Constraint (dep_types).  A Constraint is                    *)
(* [type, major, minor, patch] with minor and patch optional.              *)
(***************************************************************************)
VersionNew(major, minor, patch) == <<major, minor, patch>>
VersionNewShort(major, minor) == <<major, minor, 0>>

VersionLt(a, b) ==
    \/ a[1] < b[1]
    \/ a[1] = b[1] /\ a[2] < b[2]
    \/ a[1] = b[1] /\ a[2] = b[2] /\ a[3] < b[3]

VersionLe(a, b) == a = b \/ VersionLt(a, b)

DigitChar(n) ==
    CASE n = 0 -> "0" [] n = 1 -> "1" [] n = 2 -> "2" [] n = 3 -> "3"
      [] n = 4 -> "4" [] n = 5 -> "5" [] n = 6 -> "6" [] n = 7 -> "7"
      [] n = 8 -> "8" [] n = 9 -> "9"

RECURSIVE NatToText(_)
NatToText(n) ==
    IF n < 10 THEN <<DigitChar(n)>>
    ELSE NatToText(n \div 10) \o <<DigitChar(n % 10)>>

VersionToString(v) ==
    NatToText(v[1]) \o <<".">> \o NatToText(v[2]) \o <<".">> \o NatToText(v[3])

OrZero(o) == IF o = None THEN 0 ELSE o[1]

ConstraintNew(type, major, minor, patch) ==
    [type |-> type, major |-> major, minor |-> Some(minor), patch |-> Some(patch)]

ConstraintVersion(c) == <<c.major, OrZero(c.minor), OrZero(c.patch)>>

CaretUpper(c) ==
    IF c.major > 0 THEN <<c.major + 1, 0, 0>>
    ELSE IF OrZero(c.minor) > 0 THEN <<0, OrZero(c.minor) + 1, 0>>
    ELSE <<0, 0, OrZero(c.patch) + 1>>

TildeUpper(c) ==
    IF c.minor = None THEN <<c.major + 1, 0, 0>>
    ELSE <<c.major, c.minor[1] + 1, 0>>

IsCompatible(c, v) ==
    LET cv == ConstraintVersion(c)
    IN  CASE c.type = "Exact" ->
               /\ v[1] = c.major
               /\ (c.minor = None \/ v[2] = c.minor[1])
               /\ (c.patch = None \/ v[3] = c.patch[1])
          [] c.type = "Gte" -> VersionLe(cv, v)
          [] c.type = "Lte" -> VersionLe(v, cv)
          [] c.type = "Gt" -> VersionLt(cv, v)
          [] c.type = "Lt" -> VersionLt(v, cv)
          [] c.type = "Ne" -> v # cv
          [] c.type = "Caret" -> VersionLe(cv, v) /\ VersionLt(v, CaretUpper(c))
          [] c.type = "Tilde" -> VersionLe(cv, v) /\ VersionLt(v, TildeUpper(c))

(* Constraint::from_str on a constraint string [op, nums]: the operator    *)
(* text ("" when there is none) and the dotted numbers that follow it.     *)
ReqTypeOfOp(op) ==
    CASE op = "" -> "Caret"
      [] op = "^" -> "Caret"
      [] op = "~" -> "Tilde"
      [] op = "=" -> "Exact"
      [] op = "==" -> "Exact"
      [] op = "!=" -> "Ne"
      [] op = ">=" -> "Gte"
      [] op = "<=" -> "Lte"
      [] op = ">" -> "Gt"
      [] op = "<" -> "Lt"

ConstraintFromStr(s) ==
    [type |-> ReqTypeOfOp(s.op),
     major |-> s.nums[1],
     minor |-> IF Len(s.nums) >= 2 THEN Some(s.nums[2]) ELSE None,
     patch |-> IF Len(s.nums) >= 3 THEN Some(s.nums[3]) ELSE None]

(* Version::from_cp_str: a compact interpreter tag cpNN or pyNN is the     *)
(* version N.N'; any other text is an error.                               *)
DigitVal(c) ==
    CASE c = "0" -> 0 [] c = "1" -> 1 [] c = "2" -> 2 [] c = "3" -> 3
      [] c = "4" -> 4 [] c = "5" -> 5 [] c = "6" -> 6 [] c = "7" -> 7
      [] c = "8" -> 8 [] c = "9" -> 9 [] OTHER -> -1

VersionFromCpStr(s) ==
    IF /\ Len(s) = 4
       /\ SubSeq(s, 1, 2) \in {<<"c", "p">>, <<"p", "y">>}
       /\ DigitVal(s[3]) >= 0
       /\ DigitVal(s[4]) >= 0
    THEN Ok(VersionNew(DigitVal(s[3]), DigitVal(s[4]), 0))
    ELSE Err

(* Version::from_str on dotted numeric text: the numbers between the dots, *)
(* missing trailing numbers being zero.                                    *)
RECURSIVE TextToNat(_, _)
TextToNat(s, acc) ==
    IF s = <<>> THEN acc
    ELSE TextToNat(Tail(s), acc * 10 + DigitVal(s[1]))

RECURSIVE SplitDots(_, _)
SplitDots(s, cur) ==
    IF s = <<>> THEN <<cur>>
    ELSE IF s[1] = "." THEN <<cur>> \o SplitDots(Tail(s), <<>>)
    ELSE SplitDots(Tail(s), Append(cur, s[1]))

VersionFromStr(s) ==
    LET parts == SplitDots(s, <<>>)
        Num(k) == IF k <= Len(parts) THEN TextToNat(parts[k], 0) ELSE 0
    IN  VersionNew(Num(1), Num(2), Num(3))

Py3 == <<"p", "y", "3">>
Py2Py3 == <<"p", "y", "2", ".", "p", "y", "3">>

(***************************************************************************)
(* Artifact selection: the body of sync_deps' install loop between the     *)
(* fetch of the release records and the call of the installer.             *)
(***************************************************************************)
RequiresPythonOk(rel, pv) ==
    \/ rel.requires_python = None
    \/ IsCompatible(ConstraintFromStr(rel.requires_python[1]), pv)

WheelOsOk(wheel_os, host) == ~(wheel_os # host /\ wheel_os # "Any")

(* Variant: the interpreter tag is not looked at.                           *)
PythonVersionOkAlways(rel, pv) == TRUE

PythonVersionOk(rel, pv) ==
    LET parsed == VersionFromCpStr(rel.python_version)
    IN  IF IsOk(parsed)
        THEN ~(/\ parsed[2] # pv
               /\ rel.python_version # Py2Py3
               /\ rel.python_version # Py3)
        ELSE TRUE

WheelCompatible(rel, host, pv) ==
    /\ RequiresPythonOk(rel, pv)
    /\ WheelOsOk(OsFromWheelFname(rel.filename)[2], host)
    /\ PythonVersionOk(rel, pv)

(* What stops the classification loop at a record: a wheel whose filename  *)
(* yields no Os panics (expect), any other package type but sdist aborts.  *)
RecordStops(rel) ==
    CASE rel.packagetype = "bdist_wheel" ->
           IF IsOk(OsFromWheelFname(rel.filename)) THEN "" ELSE "panic: os"
      [] rel.packagetype = "sdist" -> ""
      [] OTHER -> "surprising package type"

ClassifyStops(d) ==
    LET bad == {k \in DOMAIN d : RecordStops(d[k]) # ""}
    IN  IF bad = {} THEN ""
        ELSE RecordStops(d[CHOOSE k \in bad : \A m \in bad : k <= m])

CompatibleReleases(d, host, pv) ==
    LET Keep(rel) == rel.packagetype = "bdist_wheel" /\ WheelCompatible(rel, host, pv)
    IN  SelectSeq(d, Keep)

SourceReleases(d) ==
    LET Keep(rel) == rel.packagetype = "sdist"
    IN  SelectSeq(d, Keep)

BestRelease(compatible, sources) ==
    IF compatible = <<>>
    THEN IF sources = <<>> THEN None ELSE Some(sources[1])
    ELSE Some(compatible[1])

PackageTypeOf(compatible, sources) ==
    IF compatible = <<>> /\ sources # <<>> THEN "Source" ELSE "Wheel"

(***************************************************************************)
(* sync_deps: the comparisons of the two loops, the order of its phases    *)
(* and the lock it builds.  A resolved or installed package is the pair    *)
(* <<name, version>>.                                                      *)
(***************************************************************************)
(* Variant: only the resolved name is lowercased.                          *)
AlreadyInstalledOneSided(name, version, inst) ==
    \E k \in DOMAIN inst : inst[k][1] = ToLowercase(name) /\ inst[k][2] = version

AlreadyInstalled(name, version, inst) ==
    \E k \in DOMAIN inst :
        ToLowercase(inst[k][1]) = ToLowercase(name) /\ inst[k][2] = version

(* Variant: an installed package is required when its name is resolved,    *)
(* whatever its version.                                                   *)
RequiredByName(inst_name, inst_vers, res) ==
    \E k \in DOMAIN res : ToLowercase(res[k][1]) = ToLowercase(inst_name)

(* Variant: an installed package is required when the resolved set holds   *)
(* its version under the very same spelling of its name.                   *)
RequiredSameSpelling(inst_name, inst_vers, res) ==
    \E k \in DOMAIN res : res[k][1] = inst_name /\ res[k][2] = inst_vers

Required(inst_name, inst_vers, res) ==
    \E k \in DOMAIN res :
        ToLowercase(res[k][1]) = ToLowercase(inst_name) /\ res[k][2] = inst_vers

(* Variant: the uninstall loop runs before the install loop.               *)
PhaseAfterUninstallFirst(phase) ==
    CASE phase = "resolve" -> "uninstall_loop"
      [] phase = "uninstall_loop" -> "install_loop"
      [] phase = "install_loop" -> "write_lock"

PhaseAfter(phase) ==
    CASE phase = "resolve" -> "install_loop"
      [] phase = "install_loop" -> "uninstall_loop"
      [] phase = "uninstall_loop" -> "write_lock"

(* Variant: the installer's error is reported and the loop goes on.        *)
InstallOutcomePcContinue(ok) == "install_loop"

InstallOutcomePc(ok) == IF ok THEN "install_loop" ELSE "aborted"

WarehouseReleaseUrl(name, version) ==
    "https://pypi.org/pypi/" \o Str(name) \o "/"
        \o Str(VersionToString(version)) \o "/json"

(* Variant: the lock entry records no source.                              *)
LockPackageOfNoSource(name, version) ==
    [name |-> name,
     version |-> VersionToString(version),
     source |-> None,
     dependencies |-> None]

LockPackageOf(name, version) ==
    [name |-> name,
     version |-> VersionToString(version),
     source |-> Some("pypi+https://pypi.org/pypi/" \o Str(name) \o "/"
                        \o Str(VersionToString(version)) \o "/json"),
     dependencies |-> None]

NewLock(res) ==
    [metadata |-> None,
     package |-> Some([k \in DOMAIN res |-> LockPackageOf(res[k][1], res[k][2])])]

LockDefault == [metadata |-> None, package |-> None]

(* util::find_installed: the library directory's packages, in the order    *)
(* the directory listing yields them.                                      *)
FindInstalled(l) ==
    {s \in SeqsUpTo(l, Cardinality(l)) : Len(s) = Cardinality(l) /\ Range(s) = l}

ClearLocals ==
    /\ data' = <<>>
    /\ compatible_releases' = <<>>
    /\ source_releases' = <<>>
    /\ best_release' = None
    /\ package_type' = ""

LocalsUnchanged ==
    UNCHANGED <<data, compatible_releases, source_releases, best_release, package_type>>

InputsUnchanged ==
    UNCHANGED <<run, command, packages, index, os, python_vers,
                osVars, cfgVars, envVars, newVars>>

(***************************************************************************)
(* main: the install and uninstall commands up to their call of sync_deps. *)
(* A Req is [name, constraints].                                           *)
(***************************************************************************)
Req(name, constraints) == [name |-> name, constraints |-> constraints]

AddedReqsUnique(added_reqs, cfg_reqs) ==
    LET Add(ar) ==
            ~\E k \in DOMAIN cfg_reqs :
                \/ cfg_reqs[k] = ar
                \/ /\ ToLowercase(cfg_reqs[k].name) = ToLowercase(ar.name)
                   /\ ar.constraints = <<>>
    IN  SelectSeq(added_reqs, Add)

(* latest[k] is the version get_version_info reports for the k-th added    *)
(* requirement.                                                            *)
WithLatestCaret(added, latest) ==
    [k \in DOMAIN added |->
        IF added[k].constraints = <<>>
        THEN Req(added[k].name,
                 <<ConstraintNew("Caret", latest[k][1], latest[k][2], latest[k][3])>>)
        ELSE added[k]]

MergedReqs(cfg_reqs, added) ==
    LET Hits(cr) == {k \in DOMAIN added :
                        added[k].name = cr.name /\ added[k].constraints # cr.constraints}
        Merge(cr) == IF Hits(cr) = {} THEN cr
                     ELSE added[CHOOSE k \in Hits(cr) : \A m \in Hits(cr) : k <= m]
    IN  [k \in DOMAIN cfg_reqs |-> Merge(cfg_reqs[k])] \o added

RECURSIVE PinReq(_, _)
PinReq(req, lock_packs) ==
    IF lock_packs = <<>> THEN req
    ELSE LET lock_pack == lock_packs[1]
             lock_vers == VersionFromStr(lock_pack.version)
             compatible == \A k \in DOMAIN req.constraints :
                               IsCompatible(req.constraints[k], lock_vers)
             pinned == IF lock_pack.name = req.name /\ compatible
                       THEN Req(req.name,
                                <<ConstraintNew("Exact", lock_vers[1], lock_vers[2],
                                                lock_vers[3])>>)
                       ELSE req
         IN  PinReq(pinned, Tail(lock_packs))

PinToLock(merged, lock) ==
    IF lock.package = None THEN merged
    ELSE [k \in DOMAIN merged |-> PinReq(merged[k], lock.package[1])]

ReadLock == IF lockFile = None THEN LockDefault ELSE lockFile[1]

(* edit_files::add_reqs_to_cfg and remove_reqs_from_cfg on the manifest's  *)
(* dependency section.                                                     *)
AddReqsToCfg(cfg_reqs, added) == cfg_reqs \o added

RemoveReqsFromCfg(cfg_reqs, removed) ==
    LET Keep(r) == ~\E k \in DOMAIN removed :
                       ToLowercase(removed[k]) = ToLowercase(r.name)
    IN  SelectSeq(cfg_reqs, Keep)

Event(op) == [op |-> op]
PackageEvent(op, name, version) == [op |-> op, name |-> name, version |-> version]

(* The install command: lines 855-927, up to the merged requirement list   *)
(* and the inventory read.                                                 *)
MainInstall ==
    /\ pc = "start"
    /\ command = "install"
    /\ LET unique == AddedReqsUnique(packages, manifest)
       IN  \E latest \in [DOMAIN unique -> {VersionNew(1, 0, 0), VersionNew(2, 0, 0)}] :
           \E inst \in FindInstalled(lib) :
               LET added == WithLatestCaret(unique, latest)
                   merged == MergedReqs(manifest, added)
               IN  /\ manifest' = IF added # <<>> THEN AddReqsToCfg(manifest, added)
                                  ELSE manifest
                   /\ events' = IF added # <<>>
                                THEN Append(events, Event("add_reqs_to_cfg"))
                                ELSE events
                   /\ reqs' = merged
                   /\ installed' = inst
    /\ pc' = "pin"
    /\ LocalsUnchanged
    /\ InputsUnchanged
    /\ UNCHANGED <<lockFile, lib, resolved, i, j, failure>>

(* Lines 929-961: tie the merged requirements to the lock, in place, then  *)
(* call sync_deps.                                                         *)
PrePin ==
    /\ pc = "pin"
    /\ reqs' = PinToLock(reqs, ReadLock)
    /\ pc' = "resolve"
    /\ LocalsUnchanged
    /\ InputsUnchanged
    /\ UNCHANGED <<manifest, lockFile, lib, installed, resolved, i, j, events, failure>>

(* The uninstall command: lines 974-996, up to the call of sync_deps.      *)
MainUninstall ==
    /\ pc = "start"
    /\ command = "uninstall"
    /\ LET removed_reqs == [k \in DOMAIN packages |-> packages[k].name]
           Keep(req) == ~\E k \in DOMAIN removed_reqs : removed_reqs[k] = req.name
       IN  /\ manifest' = RemoveReqsFromCfg(manifest, removed_reqs)
           /\ events' = IF manifest' # manifest
                        THEN Append(events, Event("remove_reqs_from_cfg"))
                        ELSE events
           /\ reqs' = SelectSeq(manifest, Keep)
    /\ \E inst \in FindInstalled(lib) : installed' = inst
    /\ pc' = "resolve"
    /\ LocalsUnchanged
    /\ InputsUnchanged
    /\ UNCHANGED <<lockFile, lib, resolved, i, j, failure>>

(***************************************************************************)
(* sync_deps, step by step.                                                *)
(***************************************************************************)
(* dep_resolution::resolve and the abort on its error: lines 564-571.      *)
(* util::abort ends the process (pc "aborted"); a panic, from expect or    *)
(* unwrap, ends it too (pc "panicked").                                    *)
Resolve ==
    /\ pc = "resolve"
    /\ IF IsOk(index)
       THEN /\ resolved' = index[2]
            /\ pc' = PhaseAfter("resolve")
            /\ failure' = failure
       ELSE /\ resolved' = resolved
            /\ pc' = "aborted"
            /\ failure' = "Problem resolving dependencies"
    /\ i' = 1
    /\ j' = 1
    /\ LocalsUnchanged
    /\ InputsUnchanged
    /\ UNCHANGED <<manifest, lockFile, lib, reqs, installed, events>>

(***************************************************************************)
(* Config::from_file and Config::write_file.  pyproject.toml is the list   *)
(* of its lines, a line being a tuple of one-character strings.            *)
(***************************************************************************)
HeaderMetadata ==
    <<"[", "t", "o", "o", "l", ".", "p", "y", "p", "a", "c", "k", "a", "g",
      "e", "]">>

HeaderDependencies ==
    <<"[", "t", "o", "o", "l", ".", "p", "y", "p", "a", "c", "k", "a", "g",
      "e", ".", "d", "e", "p", "e", "n", "d", "e", "n", "c", "i", "e", "s",
      "]">>

HeaderFeatures ==
    <<"[", "t", "o", "o", "l", ".", "p", "y", "p", "a", "c", "k", "a", "g",
      "e", ".", "f", "e", "a", "t", "u", "r", "e", "s", "]">>

KeyName == <<"n", "a", "m", "e">>
KeyDescription == <<"d", "e", "s", "c", "r", "i", "p", "t", "i", "o", "n">>
KeyVersion == <<"v", "e", "r", "s", "i", "o", "n">>
KeyPyVersion == <<"p", "y", "_", "v", "e", "r", "s", "i", "o", "n">>

ConfigDefault ==
    [name |-> None, description |-> None, version |-> None, py_version |-> None,
     reqs |-> <<>>]

StartsWith(l, prefix) ==
    Len(l) >= Len(prefix) /\ SubSeq(l, 1, Len(prefix)) = prefix

(* sect_re of line 176, as is_match uses it: an opening bracket with a     *)
(* closing bracket somewhere after it, anywhere in the line.               *)
SectReIsMatch(l) ==
    \E p, q \in DOMAIN l : p < q /\ l[p] = "[" /\ l[q] = "]"

RECURSIVE SkipSpaces(_, _)
SkipSpaces(l, p) ==
    IF p <= Len(l) /\ l[p] = " " THEN SkipSpaces(l, p + 1) ELSE p

(* key_re(key).captures(l): the key at the start of the line, white space, *)
(* the equals sign, white space, then the text between a double quote and  *)
(* the double quote that ends the line.  Some(captured text) or None.      *)
KeyReCaptures(key, l) ==
    IF ~StartsWith(l, key) THEN None
    ELSE LET eq == SkipSpaces(l, Len(key) + 1)
         IN  IF ~(eq <= Len(l) /\ l[eq] = "=") THEN None
             ELSE LET open == SkipSpaces(l, eq + 1)
                  IN  IF open < Len(l) /\ l[open] = "\"" /\ l[Len(l)] = "\""
                      THEN Some(SubSeq(l, open + 1, Len(l) - 1))
                      ELSE None

(* dep_types: the texts of versions, constraints and requirements.         *)
IsNumber(s) == s # <<>> /\ \A k \in DOMAIN s : DigitVal(s[k]) >= 0

IsDottedNumeric(s) ==
    LET parts == SplitDots(s, <<>>)
    IN  \A k \in DOMAIN parts : IsNumber(parts[k])

OpChars == {"^", "~", "=", "!", "<", ">"}

RECURSIVE OpLen(_)
OpLen(s) == IF s # <<>> /\ s[1] \in OpChars THEN 1 + OpLen(Tail(s)) ELSE 0

(* Version::from_str as a parser that can fail.  Dotted numeric text is    *)
(* its version.  On text that carries an operator before the numbers the   *)
(* parser either fails or reads the numbers: lenient says which.           *)
VersionParse(s, lenient) ==
    IF IsDottedNumeric(s) THEN Ok(VersionFromStr(s))
    ELSE LET rest == SubSeq(s, OpLen(s) + 1, Len(s))
         IN  IF lenient /\ IsDottedNumeric(rest) THEN Ok(VersionFromStr(rest)) ELSE Err

OpText(type) ==
    CASE type = "Caret" -> <<"^">>
      [] type = "Tilde" -> <<"~">>
      [] type = "Exact" -> <<"=", "=">>
      [] type = "Ne" -> <<"!", "=">>
      [] type = "Gte" -> <<">", "=">>
      [] type = "Lte" -> <<"<", "=">>
      [] type = "Gt" -> <<">">>
      [] type = "Lt" -> <<"<">>

(* Constraint::to_string: the operator, then the numbers that are present. *)
ConstraintToString(c) ==
    OpText(c.type) \o NatToText(c.major)
        \o (IF c.minor = None THEN <<>> ELSE <<".">> \o NatToText(c.minor[1]))
        \o (IF c.patch = None THEN <<>> ELSE <<".">> \o NatToText(c.patch[1]))

(* Constraint::from_str on text: Ok(constraint), or Err.                   *)
ConstraintParse(s) ==
    LET op == SubSeq(s, 1, OpLen(s))
        rest == SubSeq(s, OpLen(s) + 1, Len(s))
        parts == SplitDots(rest, <<>>)
    IN  IF /\ IsDottedNumeric(rest)
           /\ Len(parts) <= 3
           /\ Str(op) \in {"", "^", "~", "=", "==", "!=", ">=", "<=", ">", "<"}
        THEN Ok(ConstraintFromStr([op |-> Str(op),
                                   nums |-> [k \in DOMAIN parts |-> TextToNat(parts[k], 0)]]))
        ELSE Err

RECURSIVE JoinConstraints(_)
JoinConstraints(cs) ==
    IF cs = <<>> THEN <<>>
    ELSE IF Len(cs) = 1 THEN ConstraintToString(cs[1])
    ELSE ConstraintToString(cs[1]) \o <<",", " ">> \o JoinConstraints(Tail(cs))

(* Req::to_cfg_string: name = "op ver, op ver".                            *)
ToCfgString(req) ==
    req.name \o <<" ", "=", " ", "\"">> \o JoinConstraints(req.constraints) \o <<"\"">>

RECURSIVE SplitCommas(_, _)
SplitCommas(s, cur) ==
    IF s = <<>> THEN <<cur>>
    ELSE IF s[1] = "," THEN <<cur>> \o SplitCommas(Tail(s), <<>>)
    ELSE IF s[1] = " " THEN SplitCommas(Tail(s), cur)
    ELSE SplitCommas(Tail(s), Append(cur, s[1]))

RECURSIVE NameLen(_)
NameLen(s) == IF s # <<>> /\ s[1] \notin {" ", "=", "\""} THEN 1 + NameLen(Tail(s)) ELSE 0

(* Req::from_str on a manifest line: a name, the equals sign and the       *)
(* quoted constraints.  Ok(requirement), or Err.                           *)
ReqFromStr(l) ==
    LET n == NameLen(l)
        quoted == KeyReCaptures(SubSeq(l, 1, n), l)
    IN  IF n = 0 \/ quoted = None THEN Err
        ELSE LET texts == IF quoted[1] = <<>> THEN <<>> ELSE SplitCommas(quoted[1], <<>>)
             IN  IF \A k \in DOMAIN texts : IsOk(ConstraintParse(texts[k]))
                 THEN Ok(Req(SubSeq(l, 1, n),
                             [k \in DOMAIN texts |-> ConstraintParse(texts[k])[2]]))
                 ELSE Err

(* One turn of the loop of lines 178-240.  st is the loop's state: the     *)
(* three section flags, the result so far, the trace of what was read      *)
(* from which line, and whether an unwrap has panicked.                    *)
FromFileLine(st, l, k, lenient) ==
    IF st.panicked \/ StartsWith(l, <<"#">>) THEN st
    ELSE IF l = HeaderMetadata
    THEN [st EXCEPT !.in_metadata = TRUE, !.in_dep = FALSE, !.in_extras = FALSE]
    ELSE IF l = HeaderDependencies
    THEN [st EXCEPT !.in_metadata = FALSE, !.in_dep = TRUE, !.in_extras = FALSE]
    ELSE IF l = HeaderFeatures
    THEN [st EXCEPT !.in_metadata = FALSE, !.in_dep = FALSE, !.in_extras = TRUE]
    ELSE IF SectReIsMatch(l)
    THEN [st EXCEPT !.in_metadata = FALSE, !.in_dep = FALSE, !.in_extras = FALSE]
    ELSE IF st.in_metadata
    THEN LET name == KeyReCaptures(KeyName, l)
             description == KeyReCaptures(KeyDescription, l)
             version == KeyReCaptures(KeyVersion, l)
             py_version == KeyReCaptures(KeyPyVersion, l)
             bad_version == /\ version # None
                            /\ version[1] # <<>>
                            /\ ~IsOk(VersionParse(version[1], lenient))
             bad_py_version == /\ py_version # None
                               /\ py_version[1] # <<>>
                               /\ ~IsOk(ConstraintParse(py_version[1]))
             keys == (IF name # None THEN <<"name">> ELSE <<>>)
                       \o (IF description # None THEN <<"description">> ELSE <<>>)
                       \o (IF version # None THEN <<"version">> ELSE <<>>)
                       \o (IF py_version # None /\ ~bad_version
                           THEN <<"py_version">> ELSE <<>>)
         IN  [st EXCEPT
                !.result.name = IF name # None THEN Some(name[1]) ELSE @,
                !.result.description = IF description # None THEN Some(description[1]) ELSE @,
                !.result.version =
                    IF version # None /\ version[1] # <<>> /\ ~bad_version
                    THEN Some(VersionParse(version[1], lenient)[2]) ELSE @,
                !.result.py_version =
                    IF py_version # None /\ py_version[1] # <<>> /\ ~bad_version
                       /\ ~bad_py_version
                    THEN Some(ConstraintParse(py_version[1])[2]) ELSE @,
                !.trace = @ \o [n \in DOMAIN keys |->
                                   [op |-> "key", key |-> keys[n], line |-> k]],
                !.panicked = bad_version \/ bad_py_version]
    ELSE IF st.in_dep /\ l # <<>>
    THEN [st EXCEPT
            !.result.reqs = IF IsOk(ReqFromStr(l)) THEN Append(@, ReqFromStr(l)[2]) ELSE @,
            !.trace = Append(@, [op |-> "req_from_str", line |-> k]),
            !.panicked = ~IsOk(ReqFromStr(l))]
    ELSE st

RECURSIVE FromFileLoop(_, _, _, _)
FromFileLoop(st, lines, k, lenient) ==
    IF k > Len(lines) THEN st
    ELSE FromFileLoop(FromFileLine(st, lines[k], k, lenient), lines, k + 1, lenient)

(* Config::from_file on an existing file.                                  *)
FromFile(lines, lenient) ==
    FromFileLoop([in_metadata |-> FALSE, in_dep |-> FALSE, in_extras |-> FALSE,
                  result |-> ConfigDefault, trace |-> <<>>, panicked |-> FALSE],
                 lines, 1, lenient)

(* Lines 261-265.                                                          *)
PyVersionLine(config) ==
    IF config.py_version # None
    THEN KeyVersion \o <<" ", "=", " ", "\"">>
             \o ConstraintToString(config.py_version[1]) \o <<"\"">>
    ELSE KeyVersion \o <<" ", "=", " ", "\"", "\"">>

(* The text Config::write_file builds, lines 252-277, as lines.            *)
WriteFileLines(config) ==
    <<HeaderMetadata>>
      \o <<KeyName \o <<" ", "=", " ", "\"">>
             \o (IF config.name # None THEN config.name[1] ELSE <<>>) \o <<"\"">> >>
      \o <<PyVersionLine(config)>>
      \o (IF config.version # None THEN <<VersionToString(config.version[1])>> ELSE <<>>)
      \o << <<>>, <<>> >>
      \o <<HeaderDependencies>>
      \o [k \in DOMAIN config.reqs |-> ToCfgString(config.reqs[k])]

(***************************************************************************)
(* The inputs the model draws from.                                        *)
(***************************************************************************)
Names == {<<"a">>, <<"A">>, <<"b">>}
Versions == {VersionNew(1, 0, 0), VersionNew(2, 0, 0)}
Packages == Names \X Versions

UniqueNames(res) ==
    \A k, m \in DOMAIN res : ToLowercase(res[k][1]) = ToLowercase(res[m][1]) => k = m

(* The resolver's results: flat lists without duplicate names.             *)
ResolvedSets ==
    {res \in SeqsUpTo(Packages, Cardinality({ToLowercase(n) : n \in Names})) :
        UniqueNames(res)}

Libraries == {l \in SUBSET Packages : Cardinality(l) <= MaxInstalled}

HostOs == {"Linux", "Windows"}
PyVersions == {VersionNewShort(3, 7), VersionNewShort(3, 8)}

Cp37 == <<"c", "p", "3", "7">>
Cp35Cp36 == <<"c", "p", "3", "5", ".", "c", "p", "3", "6">>
Tags == {Cp37, Py3, Py2Py3, Cp35Cp36}
OsTokens == {Chars("manylinux1_x86_64"), Chars("win_amd64"), Chars("any")}
RequiresPythons == {None, Some([op |-> ">=", nums |-> <<3, 8>>])}

Wheel(requires_python, tag, token) ==
    [packagetype |-> "bdist_wheel",
     requires_python |-> requires_python,
     filename |-> <<"p", "-">> \o tag \o <<"-">> \o token \o <<".", "w", "h", "l">>,
     python_version |-> tag]

Sdist ==
    [packagetype |-> "sdist",
     requires_python |-> None,
     filename |-> <<"p", ".", "t", "a", "r", ".", "g", "z">>,
     python_version |-> <<"s", "o", "u", "r", "c", "e">>]

Egg == [Sdist EXCEPT !.packagetype = "bdist_egg", !.filename = <<"p", ".", "e", "g", "g">>]

Wheels == {Wheel(rp, tag, token) : rp \in RequiresPythons, tag \in Tags, token \in OsTokens}

AllReleases ==
    Wheels \cup {Wheel(None, Py3, Chars("manylinux2010_x86_64")), Sdist, Egg}

(* The records the sync's fetches draw from: a wheel every host accepts,   *)
(* a wheel for another platform, a wheel whose interpreter tag is no       *)
(* compact tag, and a source distribution.                                 *)
SyncReleases ==
    {Wheel(None, Py3, Chars("any")), Wheel(None, Py3, Chars("win_amd64")),
     Wheel(None, Cp35Cp36, Chars("any")), Sdist}

(***************************************************************************)
(* The install loop: lines 574-687.                                        *)
(***************************************************************************)
(* Lines 574-587: the loop's head, the already-installed test and the      *)
(* fetch of the package's release records (a failed fetch panics).         *)
InstallLoop ==
    /\ pc = "install_loop"
    /\ IF i > Len(resolved)
       THEN /\ pc' = PhaseAfter("install_loop")
            /\ UNCHANGED <<i, data, events, failure>>
       ELSE IF AlreadyInstalled(resolved[i][1], resolved[i][2], installed)
       THEN /\ i' = i + 1
            /\ UNCHANGED <<pc, data, events, failure>>
       ELSE /\ i' = i
            /\ events' = Append(events,
                                PackageEvent("fetch", resolved[i][1], resolved[i][2]))
            /\ \/ /\ \E d \in SeqsUpTo(SyncReleases, MaxSyncRels) : data' = d
                  /\ pc' = "fetched"
                  /\ failure' = failure
               \/ /\ data' = data
                  /\ pc' = "panicked"
                  /\ failure' = "Problem getting warehouse data"
    /\ InputsUnchanged
    /\ UNCHANGED <<compatible_releases, source_releases, best_release, package_type>>
    /\ UNCHANGED <<manifest, lockFile, lib, reqs, installed, resolved, j>>

(* Lines 589-665: classify the records, then pick the release.             *)
SelectRelease ==
    /\ pc = "fetched"
    /\ LET stops == ClassifyStops(data)
       IN  IF stops # ""
           THEN /\ pc' = IF stops = "panic: os" THEN "panicked" ELSE "aborted"
                /\ failure' = stops
                /\ UNCHANGED <<compatible_releases, source_releases, best_release,
                               package_type>>
           ELSE LET compatible == CompatibleReleases(data, os, python_vers)
                    sources == SourceReleases(data)
                    best == BestRelease(compatible, sources)
                IN  /\ compatible_releases' = compatible
                    /\ source_releases' = sources
                    /\ best_release' = best
                    /\ IF best = None
                       THEN /\ pc' = "aborted"
                            /\ failure' = "Unable to find a compatible release"
                            /\ package_type' = package_type
                       ELSE /\ pc' = "selected"
                            /\ failure' = failure
                            /\ package_type' = PackageTypeOf(compatible, sources)
    /\ InputsUnchanged
    /\ UNCHANGED <<manifest, lockFile, lib, reqs, installed, resolved, i, j, data,
                   events>>

(* Lines 667-687: hand the release to the installer, abort on its error.   *)
DownloadAndInstall ==
    /\ pc = "selected"
    /\ \E ok \in BOOLEAN :
        /\ pc' = InstallOutcomePc(ok)
        /\ IF ok
           THEN /\ lib' = lib \cup {resolved[i]}
                /\ events' = Append(events,
                       [op |-> "install", name |-> resolved[i][1],
                        version |-> resolved[i][2], release |-> best_release[1],
                        package_type |-> package_type])
           ELSE /\ lib' = lib
                /\ events' = events
        /\ failure' = IF ok THEN failure ELSE "Problem downloading packages"
        /\ IF pc' = "aborted"
           THEN /\ i' = i
                /\ LocalsUnchanged
           ELSE /\ i' = i + 1
                /\ ClearLocals
    /\ InputsUnchanged
    /\ UNCHANGED <<manifest, lockFile, reqs, installed, resolved, j>>

(* Lines 689-699: one turn of the uninstall loop.                          *)
UninstallLoop ==
    /\ pc = "uninstall_loop"
    /\ IF j > Len(installed)
       THEN /\ pc' = PhaseAfter("uninstall_loop")
            /\ UNCHANGED <<j, lib, events>>
       ELSE /\ pc' = pc
            /\ j' = j + 1
            /\ IF Required(installed[j][1], installed[j][2], resolved)
               THEN UNCHANGED <<lib, events>>
               ELSE /\ lib' = lib \ {installed[j]}
                    /\ events' = Append(events,
                           PackageEvent("uninstall", installed[j][1], installed[j][2]))
    /\ LocalsUnchanged
    /\ InputsUnchanged
    /\ UNCHANGED <<manifest, lockFile, reqs, installed, resolved, i, failure>>

(* Lines 707-729: build the lock from the resolved set and write it.       *)
WriteLock ==
    /\ pc = "write_lock"
    /\ \/ /\ lockFile' = Some(NewLock(resolved))
          /\ events' = Append(events, Event("write_lock"))
          /\ pc' = "done"
          /\ failure' = failure
       \/ /\ lockFile' = lockFile
          /\ events' = events
          /\ pc' = "aborted"
          /\ failure' = "Problem writing lock file"
    /\ LocalsUnchanged
    /\ InputsUnchanged
    /\ UNCHANGED <<manifest, lib, reqs, installed, resolved, i, j>>

(* The user runs `install` again, with no package arguments, after a       *)
(* command that completed; the index answers as before.                    *)
Rerun ==
    /\ pc = "done"
    /\ run < MaxRuns
    /\ run' = run + 1
    /\ pc' = "start"
    /\ command' = "install"
    /\ packages' = <<>>
    /\ events' = <<>>
    /\ reqs' = <<>>
    /\ installed' = <<>>
    /\ resolved' = <<>>
    /\ i' = 1
    /\ j' = 1
    /\ LocalsUnchanged
    /\ UNCHANGED <<manifest, lockFile, lib, index, os, python_vers, failure>>
    /\ UNCHANGED <<osVars, cfgVars, envVars, newVars>>

(***************************************************************************)
(* The specifications.                                                     *)
(***************************************************************************)
(* What the variables of the parts of the program a specification leaves   *)
(* out hold: no call made, no file, no environment, no child process.      *)
OsIdle == fname = <<>> /\ fname_os = None /\ os_token = <<>> /\ os_parsed = None

CfgIdle == cfg_file = None /\ cfg = ConfigDefault /\ cfg_written = None

EnvIdle ==
    /\ venvs = {}
    /\ alias = None
    /\ vers_path = None
    /\ created_vers = None
    /\ venv_child = "none"
    /\ wheel_child = "none"

NewIdle == project = None /\ project_before = None

Manifests == {<<>>, <<Req(<<"a">>, <<ConstraintNew("Caret", 1, 0, 0)>>)>>}
CliPackages == {<<>>, <<Req(<<"b">>, <<>>)>>}

Init ==
    /\ pc = "start"
    /\ run = 1
    /\ command \in {"install", "uninstall"}
    /\ packages \in CliPackages
    /\ manifest \in Manifests
    /\ lockFile = None
    /\ lib \in Libraries
    /\ index \in {Err} \cup {Ok(res) : res \in ResolvedSets}
    /\ os = "Linux"
    /\ python_vers = VersionNewShort(3, 7)
    /\ reqs = <<>>
    /\ installed = <<>>
    /\ resolved = <<>>
    /\ i = 1
    /\ j = 1
    /\ data = <<>>
    /\ compatible_releases = <<>>
    /\ source_releases = <<>>
    /\ best_release = None
    /\ package_type = ""
    /\ events = <<>>
    /\ failure = ""
    /\ OsIdle /\ CfgIdle /\ EnvIdle /\ NewIdle

Next ==
    \/ MainInstall
    \/ PrePin
    \/ MainUninstall
    \/ Resolve
    \/ InstallLoop
    \/ SelectRelease
    \/ DownloadAndInstall
    \/ UninstallLoop
    \/ WriteLock
    \/ Rerun

Spec == Init /\ [][Next]_vars

(* Artifact selection on its own: every list of release records, host Os   *)
(* and interpreter version, for one package that has to be installed.      *)
InitSelect ==
    /\ pc = "fetched"
    /\ run = 1
    /\ command = "install"
    /\ packages = <<>>
    /\ manifest = <<>>
    /\ lockFile = None
    /\ lib = {}
    /\ index = Ok(<< <<<<"a">>, VersionNew(1, 0, 0)>> >>)
    /\ os \in HostOs
    /\ python_vers \in PyVersions
    /\ reqs = <<>>
    /\ installed = <<>>
    /\ resolved = << <<<<"a">>, VersionNew(1, 0, 0)>> >>
    /\ i = 1
    /\ j = 1
    /\ data \in SeqsUpTo(AllReleases, MaxRels)
    /\ compatible_releases = <<>>
    /\ source_releases = <<>>
    /\ best_release = None
    /\ package_type = ""
    /\ events = << PackageEvent("fetch", <<"a">>, VersionNew(1, 0, 0)) >>
    /\ failure = ""
    /\ OsIdle /\ CfgIdle /\ EnvIdle /\ NewIdle

NextSelect == SelectRelease

SpecSelect == InitSelect /\ [][NextSelect]_vars

(* Os::from_str and os_from_wheel_fname on their own: every token and      *)
(* every filename of the domains below, a filename being a prefix, a       *)
(* token and an ending.                                                    *)
FromStrTokens ==
    {Chars("manylinux1_i686"), Chars("manylinux1_x86_64"), Chars("win32"),
     Chars("win_amd64"), Chars("darwin"), Chars("any"), Chars("mac"),
     Chars("macosx_10_9_x86_64"), Chars("manylinux2010_x86_64"),
     <<"x", "m", "a", "c">>, <<"M", "A", "C">>, <<"w", "i", "n">>,
     <<"l", "i", "n", "u", "x">>, <<"a", "n", "y", "1">>, <<>>}

FnamePrefixes ==
    {<<>>, <<"p">>, <<"p", "-">>, <<"p", "-", "1", ".", "0", "-">>,
     <<"p", "-", "m", "a", "c", "-">>, <<"-">>}

FnameEndings ==
    {<<".", "w", "h", "l">>, <<"_", "w", "h", "l">>, <<"-", "w", "h", "l">>,
     <<".", "w", "h", "l", ".", "x">>, <<".", "t", "a", "r", ".", "g", "z">>, <<>>}

Fnames == {pre \o token \o ending :
              pre \in FnamePrefixes, token \in FromStrTokens, ending \in FnameEndings}

OsFromStrCall ==
    /\ pc = "start"
    /\ os_parsed = None
    /\ os_parsed' = Some(OsFromStr(os_token))
    /\ UNCHANGED <<pc, run, command, packages, manifest, lockFile, lib, index, os,
                   python_vers, reqs, installed, resolved, i, j, data,
                   compatible_releases, source_releases, best_release, package_type,
                   events, failure>>
    /\ UNCHANGED <<fname, fname_os, os_token, cfgVars, envVars, newVars>>

OsFromWheelFnameCall ==
    /\ pc = "start"
    /\ fname_os = None
    /\ fname_os' = Some(OsFromWheelFname(fname))
    /\ UNCHANGED <<pc, run, command, packages, manifest, lockFile, lib, index, os,
                   python_vers, reqs, installed, resolved, i, j, data,
                   compatible_releases, source_releases, best_release, package_type,
                   events, failure>>
    /\ UNCHANGED <<fname, os_token, os_parsed, cfgVars, envVars, newVars>>

SyncIdle ==
    /\ run = 1
    /\ command = ""
    /\ packages = <<>>
    /\ manifest = <<>>
    /\ lockFile = None
    /\ lib = {}
    /\ index = Err
    /\ os = "Linux"
    /\ python_vers = VersionNew(0, 0, 0)
    /\ reqs = <<>>
    /\ installed = <<>>
    /\ resolved = <<>>
    /\ i = 1
    /\ j = 1
    /\ data = <<>>
    /\ compatible_releases = <<>>
    /\ source_releases = <<>>
    /\ best_release = None
    /\ package_type = ""
    /\ events = <<>>
    /\ failure = ""

InitOs ==
    /\ pc = "start"
    /\ SyncIdle
    /\ fname \in Fnames
    /\ fname_os = None
    /\ os_token \in FromStrTokens
    /\ os_parsed = None
    /\ CfgIdle /\ EnvIdle /\ NewIdle

NextOs ==
    \/ OsFromStrCall
    \/ OsFromWheelFnameCall

SpecOs == InitOs /\ [][NextOs]_vars

(* Config::from_file and Config::write_file on their own: main reads the   *)
(* manifest at the start of every command (line 737), and the init command *)
(* writes the Config it has put together (line 762); a later command reads *)
(* what was written.                                                       *)
ManifestLines ==
    {HeaderMetadata, HeaderDependencies, HeaderFeatures,
     <<"[", "x", "]">>,
     <<"#", " ", "c">>,
     <<>>,
     <<"a", " ", "=", " ", "\"", "^", "1", "\"">>,
     <<"a", "[", "x", "]", " ", "=", " ", "\"", "^", "1", "\"">>,
     <<"n", "a", "m", "e", " ", "=", " ", "\"", "p", "\"">>,
     <<"p", "y", "_", "v", "e", "r", "s", "i", "o", "n", " ", "=", " ", "\"", "^", "3", ".", "7", "\"">>,
     <<"v", "e", "r", "s", "i", "o", "n", " ", "=", " ", "\"", "0", ".", "1", ".", "0", "\"">>}

WriteConfigs ==
    [name : {Some(<<"p">>)},
     description : {None},
     version : {None, Some(VersionNew(0, 1, 0))},
     py_version : {Some(ConstraintFromStr([op |-> "^", nums |-> <<3, 7>>])),
                   Some(ConstraintNew("Gte", 3, 8, 0))},
     reqs : SeqsUpTo({Req(<<"a">>, <<ConstraintNew("Caret", 1, 0, 0)>>),
                      Req(<<"b">>, <<ConstraintNew("Gte", 1, 0, 0),
                                     ConstraintNew("Lt", 2, 0, 0)>>)}, MaxDeps)]

SyncFrame ==
    UNCHANGED <<run, command, packages, manifest, lockFile, lib, index, os,
                python_vers, reqs, installed, resolved, i, j, data,
                compatible_releases, source_releases, best_release, package_type>>

ConfigFromFile ==
    /\ pc = "config"
    /\ IF cfg_file = None
       THEN /\ cfg' = ConfigDefault
            /\ pc' = "parsed"
            /\ UNCHANGED <<events, failure>>
       ELSE \E lenient \in BOOLEAN :
                LET st == FromFile(cfg_file[1], lenient)
                IN  /\ events' = events \o st.trace
                    /\ IF st.panicked
                       THEN /\ pc' = "panicked"
                            /\ failure' = "panic: manifest"
                            /\ cfg' = cfg
                       ELSE /\ pc' = "parsed"
                            /\ failure' = failure
                            /\ cfg' = st.result
    /\ SyncFrame
    /\ UNCHANGED <<cfg_file, cfg_written, osVars, envVars, newVars>>

ConfigWriteFile ==
    /\ pc = "write"
    /\ IF cfg_file # None
       THEN /\ pc' = "aborted"
            /\ failure' = "pyproject.toml already exists"
            /\ UNCHANGED <<cfg_file, cfg_written, events>>
       ELSE \/ /\ cfg_file' = Some(WriteFileLines(cfg))
               /\ cfg_written' = Some(cfg)
               /\ events' = Append(events, Event("write_file"))
               /\ pc' = "config"
               /\ failure' = failure
            \/ /\ pc' = "aborted"
               /\ failure' = "Problem writing pyproject.toml"
               /\ UNCHANGED <<cfg_file, cfg_written, events>>
    /\ SyncFrame
    /\ UNCHANGED <<cfg, osVars, envVars, newVars>>

InitCfg ==
    /\ SyncIdle
    /\ \/ /\ pc = "config"
          /\ cfg_file \in {None} \cup {Some(ls) : ls \in SeqsUpTo(ManifestLines, MaxLines)}
          /\ cfg = ConfigDefault
       \/ /\ pc = "write"
          /\ cfg_file \in {None, Some(<<>>)}
          /\ cfg \in WriteConfigs
    /\ cfg_written = None
    /\ OsIdle /\ EnvIdle /\ NewIdle

NextCfg ==
    \/ ConfigFromFile
    \/ ConfigWriteFile

SpecCfg == InitCfg /\ [][NextCfg]_vars

(***************************************************************************)
(* The environment check of main, lines 767-842, and create_venv, lines    *)
(* 462-530.  A version directory of __pypackages__ is the pair             *)
(* <<major, minor>>.  The two child processes run on their own: each goes  *)
(* from "running" to "exited" whenever it is done.                         *)
(***************************************************************************)
DirOf(v) == <<v[1], v[2]>>

CfgDir(cfg_v) == <<cfg_v.major, OrZero(cfg_v.minor)>>

PossiblePyVersions == {<<3, 7>>, <<3, 8>>}

(* The cfg_v argument of create_venv at both of its calls, lines 789 and   *)
(* 816.                                                                    *)
CreateVenvArg == None

EnvFrame ==
    UNCHANGED <<run, command, packages, manifest, lockFile, lib, index, os, reqs,
                installed, resolved, i, j, data, compatible_releases,
                source_releases, best_release, package_type, events,
                osVars, cfgVars, newVars, alias>>

(* Lines 777-839, up to a call of create_venv.                             *)
CheckEnv ==
    /\ pc = "env"
    /\ IF cfg.py_version # None
       THEN LET cfg_v == cfg.py_version[1]
            IN  IF CfgDir(cfg_v) \notin venvs
                THEN /\ pc' = "create_venv"
                     /\ UNCHANGED <<vers_path, python_vers, failure>>
                ELSE /\ pc' = "start"
                     /\ vers_path' = Some(CfgDir(cfg_v))
                     /\ python_vers' = ConstraintVersion(cfg_v)
                     /\ failure' = failure
       ELSE LET found == venvs \cap PossiblePyVersions
            IN  IF found = {}
                THEN /\ pc' = "create_venv"
                     /\ UNCHANGED <<vers_path, python_vers, failure>>
                ELSE IF Cardinality(found) = 1
                THEN /\ pc' = "start"
                     /\ vers_path' = Some(CHOOSE d \in found : TRUE)
                     /\ python_vers' = VersionNewShort(vers_path'[1][1], vers_path'[1][2])
                     /\ failure' = failure
                ELSE /\ pc' = "aborted"
                     /\ failure' = "Multiple Python environments found"
                     /\ UNCHANGED <<vers_path, python_vers>>
    /\ EnvFrame
    /\ UNCHANGED <<venvs, created_vers, venv_child, wheel_child>>

(* create_venv, lines 468-501: find the interpreter, make the version's    *)
(* directory, check the interpreter against cfg_v when one was handed in,  *)
(* start the creation of the virtual environment.                          *)
CreateVenv ==
    /\ pc = "create_venv"
    /\ IF alias = None
       THEN /\ pc' = "aborted"
            /\ failure' = "Unable to find a Python version on the path"
            /\ UNCHANGED <<venvs, created_vers, venv_child>>
       ELSE IF CreateVenvArg # None /\ ~IsCompatible(CreateVenvArg[1], alias[1])
       THEN /\ pc' = "aborted"
            /\ failure' = "The Python version you selected doesn't match"
            /\ UNCHANGED <<venvs, created_vers, venv_child>>
       ELSE \/ /\ pc' = "sleep"
               /\ failure' = failure
               /\ venvs' = venvs \cup {DirOf(alias[1])}
               /\ created_vers' = Some(DirOf(alias[1]))
               /\ venv_child' = "running"
            \/ /\ pc' = "aborted"
               /\ failure' = "Problem creating virtual environment"
               /\ UNCHANGED <<venvs, created_vers, venv_child>>
    /\ EnvFrame
    /\ UNCHANGED <<vers_path, python_vers, wheel_child>>

(* create_venv, lines 518-529, and the return to main, lines 790-798 and   *)
(* 816-819: the blanket sleep, then pip install wheel is spawned and not   *)
(* waited for.  The spawn can fail as long as the environment's python is  *)
(* not there yet.                                                          *)
InstallWheel ==
    /\ pc = "sleep"
    /\ \/ /\ wheel_child' = "running"
          /\ pc' = "start"
          /\ failure' = failure
          /\ IF cfg.py_version # None
             THEN /\ vers_path' = Some(CfgDir(cfg.py_version[1]))
                  /\ python_vers' = ConstraintVersion(cfg.py_version[1])
             ELSE /\ vers_path' = created_vers
                  /\ python_vers' = VersionNewShort(created_vers[1][1], created_vers[1][2])
       \/ /\ venv_child = "running"
          /\ pc' = "panicked"
          /\ failure' = "Problem installing wheel"
          /\ UNCHANGED <<wheel_child, vers_path, python_vers>>
    /\ EnvFrame
    /\ UNCHANGED <<venvs, created_vers, venv_child>>

VenvChildExit ==
    /\ venv_child = "running"
    /\ venv_child' = "exited"
    /\ EnvFrame
    /\ UNCHANGED <<pc, python_vers, failure, venvs, vers_path, created_vers, wheel_child>>

WheelChildExit ==
    /\ wheel_child = "running"
    /\ wheel_child' = "exited"
    /\ EnvFrame
    /\ UNCHANGED <<pc, python_vers, failure, venvs, vers_path, created_vers, venv_child>>

(* A command from its environment check to the end of its sync.            *)
EnvPyVersions ==
    {None, Some(ConstraintFromStr([op |-> "^", nums |-> <<3, 7>>])),
     Some(ConstraintFromStr([op |-> "^", nums |-> <<3, 8>>]))}

InitEnv ==
    /\ pc = "env"
    /\ run = 1
    /\ command = "install"
    /\ packages = <<>>
    /\ manifest = <<Req(<<"a">>, <<ConstraintNew("Caret", 1, 0, 0)>>)>>
    /\ lockFile = None
    /\ lib = {<<<<"b">>, VersionNew(1, 0, 0)>>}
    /\ index \in {Err, Ok(<< <<<<"a">>, VersionNew(1, 0, 0)>> >>)}
    /\ os = "Linux"
    /\ python_vers = VersionNew(0, 0, 0)
    /\ reqs = <<>>
    /\ installed = <<>>
    /\ resolved = <<>>
    /\ i = 1
    /\ j = 1
    /\ data = <<>>
    /\ compatible_releases = <<>>
    /\ source_releases = <<>>
    /\ best_release = None
    /\ package_type = ""
    /\ events = <<>>
    /\ failure = ""
    /\ cfg_file = None
    /\ cfg_written = None
    /\ cfg \in {[ConfigDefault EXCEPT !.py_version = v] : v \in EnvPyVersions}
    /\ venvs \in SUBSET PossiblePyVersions
    /\ alias \in {None} \cup {Some(VersionNewShort(d[1], d[2])) : d \in PossiblePyVersions}
    /\ vers_path = None
    /\ created_vers = None
    /\ venv_child = "none"
    /\ wheel_child = "none"
    /\ OsIdle /\ NewIdle

NextEnv ==
    \/ CheckEnv
    \/ CreateVenv
    \/ InstallWheel
    \/ VenvChildExit
    \/ WheelChildExit
    \/ MainInstall
    \/ PrePin
    \/ Resolve
    \/ InstallLoop
    \/ SelectRelease
    \/ DownloadAndInstall
    \/ UninstallLoop
    \/ WriteLock

SpecEnv == InitEnv /\ [][NextEnv]_vars

(***************************************************************************)
(* The new command, lines 286-335 and 749-756.  The path `name` is None    *)
(* when nothing is there, [kind |-> "file"] when it is a regular file, and *)
(* [kind |-> "dir", files |-> f] when it is a directory, f giving for each *)
(* file the command knows Some(its content) or None.                       *)
(***************************************************************************)
NewFiles == {"name/main.py", "README.md", "LICENSE", "pyproject.toml", ".gitignore"}

(* The three texts of lines 297-328.                                       *)
GitignoreInit == "# General Python ignores ..."
PyprojectInit == "[tool.pypackage] name = ... py_version = ^3.7 version = 0.1.0 ..."
ReadmeInit == "# name"

(* Lines 288-295: the directories and the five empty files.                *)
CreateTemplate == [kind |-> "dir", files |-> [f \in NewFiles |-> Some("")]]

(* Lines 330-332: the three fs::write calls in order, the first k of them. *)
WriteTemplates(dir, k) ==
    [dir EXCEPT
        !.files[".gitignore"] = IF k >= 1 THEN Some(GitignoreInit) ELSE @,
        !.files["pyproject.toml"] = IF k >= 2 THEN Some(PyprojectInit) ELSE @,
        !.files["README.md"] = IF k >= 3 THEN Some(ReadmeInit) ELSE @]

(* new, and the expect of line 750.  A write under a regular file fails;   *)
(* under a directory k of the three writes succeed.                        *)
New ==
    /\ pc = "new"
    /\ IF project # None /\ project[1].kind = "file"
       THEN /\ project' = project
            /\ pc' = "panicked"
            /\ failure' = "Problem creating project"
       ELSE \E k \in 0..3 :
                /\ project' = Some(WriteTemplates(IF project = None THEN CreateTemplate
                                                  ELSE project[1], k))
                /\ pc' = IF k = 3 THEN "done" ELSE "panicked"
                /\ failure' = IF k = 3 THEN failure ELSE "Problem creating project"
    /\ SyncFrame
    /\ UNCHANGED <<events, project_before, osVars, cfgVars, envVars>>

NewContents == {None, Some(""), Some("user text"), Some(PyprojectInit)}

InitNew ==
    /\ pc = "new"
    /\ SyncIdle
    /\ project \in {None, Some([kind |-> "file"])}
                     \cup {Some([kind |-> "dir", files |-> f]) : f \in [NewFiles -> NewContents]}
    /\ project_before = project
    /\ OsIdle /\ CfgIdle /\ EnvIdle

NextNew == New

SpecNew == InitNew /\ [][NextNew]_vars

(* The install and uninstall commands up to their call of sync_deps: every *)
(* manifest, list of package arguments and lock of the domains below.      *)
(* Manifests and locks carry each package once; the command line may name  *)
(* a package twice.                                                        *)
MainReqs ==
    {Req(<<"a">>, <<ConstraintNew("Caret", 1, 0, 0)>>),
     Req(<<"A">>, <<ConstraintNew("Caret", 1, 0, 0)>>),
     Req(<<"a">>, <<ConstraintNew("Exact", 2, 0, 0)>>),
     Req(<<"b">>, <<ConstraintNew("Gte", 1, 0, 0), ConstraintNew("Lt", 2, 0, 0)>>)}

MainCliReqs ==
    {Req(<<"a">>, <<>>), Req(<<"A">>, <<>>), Req(<<"b">>, <<>>),
     Req(<<"a">>, <<ConstraintNew("Exact", 2, 0, 0)>>)}

MainManifests ==
    {m \in SeqsUpTo(MainReqs, MaxManifest) :
        \A k, n \in DOMAIN m : ToLowercase(m[k].name) = ToLowercase(m[n].name) => k = n}

MainLocks == {None} \cup {Some(NewLock(res)) : res \in ResolvedSets}

InitMain ==
    /\ pc = "start"
    /\ run = 1
    /\ command \in {"install", "uninstall"}
    /\ packages \in SeqsUpTo(MainCliReqs, MaxCli)
    /\ manifest \in MainManifests
    /\ lockFile \in MainLocks
    /\ lib = {}
    /\ index = Err
    /\ os = "Linux"
    /\ python_vers = VersionNewShort(3, 7)
    /\ reqs = <<>>
    /\ installed = <<>>
    /\ resolved = <<>>
    /\ i = 1
    /\ j = 1
    /\ data = <<>>
    /\ compatible_releases = <<>>
    /\ source_releases = <<>>
    /\ best_release = None
    /\ package_type = ""
    /\ events = <<>>
    /\ failure = ""
    /\ OsIdle /\ CfgIdle /\ EnvIdle /\ NewIdle

NextMain ==
    \/ MainInstall
    \/ PrePin
    \/ MainUninstall

SpecMain == InitMain /\ [][NextMain]_vars

(***************************************************************************)
(* Properties.                                                             *)
(***************************************************************************)
LowerView(S) == {<<ToLowercase(p[1]), p[2]>> : p \in S}

EventsOf(op) == {k \in DOMAIN events : events[k].op = op}

InstalledByEvents == {<<events[k].name, events[k].version>> : k \in EventsOf("install")}

(* C1: when sync_deps completes without aborting, the library directory,   *)
(* viewed as a set of (lowercase name, version) pairs, equals the resolved *)
(* set viewed the same way.                                                *)
C1_SyncedInventoryEqualsResolved ==
    pc = "done" => LowerView(lib) = LowerView(Range(resolved))

C1_Witness ==
    /\ pc = "done"
    /\ EventsOf("install") # {}
    /\ EventsOf("uninstall") # {}
    /\ \E p \in lib : \E q \in Range(resolved) : p[1] # q[1] /\ ToLowercase(p[1]) = ToLowercase(q[1])

(* C2: a second sync of the same requirements, on the inventory the first  *)
(* left behind and with the same index answers, installs nothing and       *)
(* uninstalls nothing.                                                     *)
C2_SecondSyncDoesNothing ==
    run >= 2 => EventsOf("install") = {} /\ EventsOf("uninstall") = {}

C2_Witness ==
    /\ run = 2
    /\ pc = "done"
    /\ Len(resolved) = 2
    /\ \E k \in DOMAIN resolved : resolved[k][1] = <<"A">>

(* C3: within one sync no install follows an uninstall, and as long as no  *)
(* uninstall has happened every package of the inventory read at the       *)
(* start is still in the library.                                          *)
C3_InstallsBeforeUninstalls ==
    /\ \A k \in EventsOf("uninstall") : \A m \in EventsOf("install") : m < k
    /\ EventsOf("uninstall") = {} => Range(installed) \subseteq lib

C3_Witness ==
    /\ EventsOf("install") # {}
    /\ EventsOf("uninstall") # {}
    /\ pc = "uninstall_loop"

(* The spec's compatibility of a wheel: requires_python satisfied, the     *)
(* filename's platform the host's or Any, the interpreter tag denoting     *)
(* exactly the host version or being py3 or py2.py3.                       *)
FinalSegment(filename) ==
    LET n == Len(filename)
    IN  SubSeq(filename, Last({p \in 1..n : filename[p] = "-"}) + 1, n - 4)

PlatformOf(rel) == OsFromStr(FinalSegment(rel.filename))

TagDenotes(rel, pv) ==
    \/ rel.python_version \in {Py3, Py2Py3}
    \/ VersionFromCpStr(rel.python_version) = Ok(pv)

SpecCompatible(rel, host, pv) ==
    /\ rel.requires_python # None =>
           IsCompatible(ConstraintFromStr(rel.requires_python[1]), pv)
    /\ PlatformOf(rel) \in {Ok(host), Ok("Any")}
    /\ TagDenotes(rel, pv)

IsWheel(rel) == rel.packagetype = "bdist_wheel"

Classified == pc = "selected" \/ (pc = "aborted" /\ failure = "Unable to find a compatible release")

(* C4: a wheel is placed in the compatible list if and only if its         *)
(* requires_python is absent or satisfied, its platform is the host's or   *)
(* Any, and its interpreter tag denotes the host version or is py3 or      *)
(* py2.py3.                                                                *)
C4_CompatibleIffThreeChecks ==
    Classified =>
        \A k \in DOMAIN data :
            IsWheel(data[k]) =>
                (data[k] \in Range(compatible_releases)
                    <=> SpecCompatible(data[k], os, python_vers))

(* C5: the release handed to the installer is the first compatible wheel,  *)
(* as a Wheel, when there is a compatible wheel, and otherwise the first   *)
(* sdist, as Source, when there is an sdist.                               *)
C5_FirstCompatibleWheelElseFirstSdist ==
    LET wheels == {k \in DOMAIN data :
                      IsWheel(data[k]) /\ SpecCompatible(data[k], os, python_vers)}
        sdists == {k \in DOMAIN data : data[k].packagetype = "sdist"}
        First(S) == CHOOSE k \in S : \A m \in S : k <= m
    IN  pc = "selected" =>
            IF wheels # {}
            THEN best_release = Some(data[First(wheels)]) /\ package_type = "Wheel"
            ELSE sdists # {} =>
                     best_release = Some(data[First(sdists)]) /\ package_type = "Source"

(* C6: a py3 or py2.py3 wheel whose platform and requires_python checks    *)
(* pass is accepted whatever the host's Python 3 version; a cp37 wheel is  *)
(* rejected on a 3.8 host.                                                 *)
C6_UniversalTagsAcceptedCp37RejectedOn38 ==
    Classified =>
        \A k \in DOMAIN data :
            IsWheel(data[k]) =>
                /\ ( /\ data[k].python_version \in {Py3, Py2Py3}
                     /\ PlatformOf(data[k]) \in {Ok(os), Ok("Any")}
                     /\ (data[k].requires_python # None =>
                            IsCompatible(ConstraintFromStr(data[k].requires_python[1]),
                                         python_vers)) )
                   => data[k] \in Range(compatible_releases)
                /\ (data[k].python_version = Cp37 /\ python_vers = VersionNewShort(3, 8))
                   => data[k] \notin Range(compatible_releases)

C6_Witness ==
    /\ pc = "selected"
    /\ python_vers = VersionNewShort(3, 8)
    /\ data = <<Wheel(None, Cp37, Chars("any")), Wheel(None, Py3, Chars("any"))>>
    /\ compatible_releases = <<Wheel(None, Py3, Chars("any"))>>

(* C7: selection fails exactly when the records hold no compatible wheel   *)
(* and no sdist; it then fails as NoCompatibleRelease, and the package is  *)
(* not installed, nothing is uninstalled and the lock is not written.      *)
C7_FailsIffNoWheelNoSdist ==
    LET nothing == /\ ~\E k \in DOMAIN data :
                          IsWheel(data[k]) /\ SpecCompatible(data[k], os, python_vers)
                   /\ ~\E k \in DOMAIN data : data[k].packagetype = "sdist"
        selection_failed ==
            failure \in {"Unable to find a compatible release", "panic: os",
                         "surprising package type"}
    IN  /\ pc = "selected" => ~nothing
        /\ selection_failed =>
               /\ nothing
               /\ failure = "Unable to find a compatible release"
               /\ pc = "aborted"
               /\ resolved[i] \notin InstalledByEvents
               /\ EventsOf("uninstall") = {}
               /\ EventsOf("write_lock") = {}

(* C8: when the installer fails the sync stops there: nothing later is     *)
(* installed, nothing is uninstalled, the lock is not written, and what    *)
(* the sync installed before stays installed.                              *)
C8_InstallFailureAborts ==
    failure = "Problem downloading packages" =>
        /\ pc = "aborted"
        /\ EventsOf("uninstall") = {}
        /\ EventsOf("write_lock") = {}
        /\ InstalledByEvents \subseteq {resolved[k] : k \in 1..(i - 1)}
        /\ resolved[i] \notin InstalledByEvents
        /\ lib = Range(installed) \cup InstalledByEvents

C8_Witness ==
    /\ failure = "Problem downloading packages"
    /\ EventsOf("install") # {}
    /\ \E k \in DOMAIN installed : ~Required(installed[k][1], installed[k][2], resolved)

(* C9: when resolution fails the command has touched nothing: no package   *)
(* installed or removed, the lock not written, the manifest not edited.    *)
C9_ResolveFailureTouchesNothing ==
    failure = "Problem resolving dependencies" =>
        /\ events = <<>>
        /\ lib = Range(installed)

(* C10: after a successful sync the lock holds one entry per resolved      *)
(* package, in order, with its name, its rendered version, the source      *)
(* pypi+<metadata url> and no dependencies, and no metadata.               *)
C10_LockMirrorsResolved ==
    pc = "done" =>
        /\ lockFile # None
        /\ lockFile[1].metadata = None
        /\ lockFile[1].package # None
        /\ LET lock_packs == lockFile[1].package[1]
           IN  /\ Len(lock_packs) = Len(resolved)
               /\ \A k \in DOMAIN resolved :
                      /\ lock_packs[k].name = resolved[k][1]
                      /\ lock_packs[k].version = VersionToString(resolved[k][2])
                      /\ lock_packs[k].source =
                             Some("pypi+" \o WarehouseReleaseUrl(resolved[k][1],
                                                                  resolved[k][2]))
                      /\ lock_packs[k].dependencies = None

C10_Witness ==
    /\ pc = "done"
    /\ run = 1
    /\ Len(resolved) = 2
    /\ lockFile[1].package[1][2].source = Some("pypi+https://pypi.org/pypi/b/2.0.0/json")

(* C11: the pre-pin replaces a requirement's constraints by the single     *)
(* constraint Exact v, v the locked version of the package, exactly when   *)
(* the lock has an entry for the package and every constraint the          *)
(* requirement had admits v; every other requirement keeps its             *)
(* constraints.  Names denote the same package when they are equal up to   *)
(* letter case.                                                            *)
LockEntriesFor(name) ==
    IF lockFile = None \/ lockFile[1].package = None THEN {}
    ELSE {e \in Range(lockFile[1].package[1]) : ToLowercase(e.name) = ToLowercase(name)}

ExactOf(v) == [type |-> "Exact", major |-> v[1], minor |-> Some(v[2]), patch |-> Some(v[3])]

Admits(req, e) ==
    \A k \in DOMAIN req.constraints :
        IsCompatible(req.constraints[k], VersionFromStr(e.version))

C11_PinnedIffLockedAndAdmitted ==
    [][pc = "pin" =>
          /\ Len(reqs') = Len(reqs)
          /\ \A k \in DOMAIN reqs :
                 LET hits == {e \in LockEntriesFor(reqs[k].name) : Admits(reqs[k], e)}
                 IN  IF hits = {}
                     THEN reqs'[k] = reqs[k]
                     ELSE \E e \in hits :
                              reqs'[k] = Req(reqs[k].name,
                                             <<ExactOf(VersionFromStr(e.version))>>)]_vars

(* C12: names that differ only in letter case are one package at every     *)
(* comparison site of the commands: the merge yields no two requirements   *)
(* whose names differ only in case, the lock lookup of the pre-pin finds   *)
(* the entry whose name equals the requirement's up to case, and the       *)
(* removal filter of uninstall drops every requirement whose name equals   *)
(* a removed name up to case.                                              *)
SameButForCase(n, m) == n # m /\ ToLowercase(n) = ToLowercase(m)

C12_NamesCompareCaseInsensitively ==
    [][/\ (pc = "start" /\ command = "install") =>
              \A k, m \in DOMAIN reqs' : ~SameButForCase(reqs'[k].name, reqs'[m].name)
       /\ pc = "pin" =>
              \A k \in DOMAIN reqs :
                  \A e \in LockEntriesFor(reqs[k].name) :
                      Admits(reqs[k], e) => reqs'[k].constraints[1].type = "Exact"
       /\ (pc = "start" /\ command = "uninstall") =>
              \A k \in DOMAIN reqs' : \A m \in DOMAIN packages :
                  ToLowercase(reqs'[k].name) # ToLowercase(packages[m].name)]_vars

(* C18: the requirement list the install command hands to sync_deps holds  *)
(* at most one requirement per package name.                               *)
C18_MergedReqsOnePerName ==
    (command = "install" /\ pc = "resolve") =>
        \A k, m \in DOMAIN reqs :
            ToLowercase(reqs[k].name) = ToLowercase(reqs[m].name) => k = m

(* C16: a package that is installed in the version the resolved set asks   *)
(* for, names compared in lowercase, is left alone by the sync: no release *)
(* metadata is fetched for it, the installer is not called for it and it   *)
(* is not uninstalled.                                                     *)
Matched(p, q) == ToLowercase(p[1]) = ToLowercase(q[1]) /\ p[2] = q[2]

C16_MatchedPackagesUntouched ==
    \A p \in Range(installed) : \A q \in Range(resolved) :
        Matched(p, q) =>
            \A k \in DOMAIN events :
                events[k].op \in {"fetch", "install", "uninstall"} =>
                    ~Matched(<<events[k].name, events[k].version>>, q)

C16_Witness ==
    /\ pc = "done"
    /\ EventsOf("install") # {}
    /\ EventsOf("uninstall") # {}
    /\ \E p \in Range(installed) : \E q \in Range(resolved) :
           Matched(p, q) /\ p[1] # q[1]

(* C13: os_from_wheel_fname returns the Os that the text between the last  *)
(* dash and the trailing .whl of the filename maps to, and Os::from_str    *)
(* maps manylinux1_i686 to Linux32, manylinux1_x86_64 to Linux, win32 to   *)
(* Windows32, win_amd64 to Windows, darwin to Mac, any to Any, every other *)
(* text containing mac to Mac, and everything else to an error.            *)
EndsInDotWhl(filename) ==
    /\ Len(filename) >= 4
    /\ SubSeq(filename, Len(filename) - 3, Len(filename)) = <<".", "w", "h", "l">>

HasDash(filename) == \E p \in DOMAIN filename : filename[p] = "-"

TokenTable ==
    {<<Chars("manylinux1_i686"), "Linux32">>, <<Chars("manylinux1_x86_64"), "Linux">>,
     <<Chars("win32"), "Windows32">>, <<Chars("win_amd64"), "Windows">>,
     <<Chars("darwin"), "Mac">>, <<Chars("any"), "Any">>}

MapsTo(token, result) ==
    IF \E row \in TokenTable : row[1] = token
    THEN \E row \in TokenTable : row[1] = token /\ result = Ok(row[2])
    ELSE IF \E k \in 1..(Len(token) - 2) :
                token[k] = "m" /\ token[k + 1] = "a" /\ token[k + 2] = "c"
    THEN result = Ok("Mac")
    ELSE result = Err

C13_OsOfFinalSegment ==
    /\ os_parsed # None => MapsTo(os_token, os_parsed[1])
    /\ (fname_os # None /\ EndsInDotWhl(fname) /\ HasDash(fname)) =>
           \A o \in {"Linux32", "Linux", "Windows32", "Windows", "Mac", "Any"} :
               MapsTo(FinalSegment(fname), Ok(o)) => fname_os[1] = Ok(o)

C13_Witness ==
    /\ os_parsed = Some(Err)
    /\ fname = <<"p", "-", "m", "a", "c", "-">> \o Chars("win_amd64") \o <<".", "w", "h", "l">>
    /\ fname_os = Some(Ok("Windows"))

(* C14: a line of the manifest is parsed as a dependency requirement       *)
(* exactly when it is non-empty, does not begin with #, is not itself a    *)
(* bracketed section header line, and the most recent section header line  *)
(* before it is exactly [tool.pypackage.dependencies]; a metadata key is   *)
(* read only from a line whose most recent section header line is exactly  *)
(* [tool.pypackage].  Lines after one on which parsing stopped are not     *)
(* looked at.                                                              *)
IsBracketedHeader(l) == l # <<>> /\ l[1] = "[" /\ l[Len(l)] = "]"

HeadersBefore(lines, k) == {m \in 1..(k - 1) : IsBracketedHeader(lines[m])}

UnderHeader(lines, k, header) ==
    /\ HeadersBefore(lines, k) # {}
    /\ lines[Last(HeadersBefore(lines, k))] = header

LinesLookedAt ==
    IF pc = "panicked" THEN events[Len(events)].line ELSE Len(cfg_file[1])

C14_DependencyLinesBySection ==
    (cfg_file # None /\ cfg_written = None /\ pc \in {"parsed", "panicked"}) =>
        LET lines == cfg_file[1]
        IN  /\ \A k \in 1..LinesLookedAt :
                   (\E e \in EventsOf("req_from_str") : events[e].line = k)
                       <=> /\ lines[k] # <<>>
                           /\ lines[k][1] # "#"
                           /\ ~IsBracketedHeader(lines[k])
                           /\ UnderHeader(lines, k, HeaderDependencies)
            /\ \A e \in EventsOf("key") :
                   UnderHeader(lines, events[e].line, HeaderMetadata)

(* C19: the file Config::write_file produces, read back by                 *)
(* Config::from_file, gives a Config with the same name, the same          *)
(* py_version and the same dependency list, and py_version does not come   *)
(* back as the project's version.                                          *)
C19_WriteReadRoundTrip ==
    (cfg_written # None /\ pc \in {"parsed", "panicked"}) =>
        /\ pc = "parsed"
        /\ cfg.name = cfg_written[1].name
        /\ cfg.py_version = cfg_written[1].py_version
        /\ cfg.reqs = cfg_written[1].reqs
        /\ cfg.version # Some(ConstraintVersion(cfg_written[1].py_version[1]))

(* C15: while the sync resolves, installs, uninstalls or writes the lock,  *)
(* no child process of the environment's creation is still running: each   *)
(* has completed, or the command has aborted, before the sync starts.      *)
SyncRunning ==
    pc \in {"resolve", "install_loop", "fetched", "selected", "uninstall_loop",
            "write_lock"}

C15_NoSyncWhileEnvChildRuns ==
    SyncRunning => venv_child # "running" /\ wheel_child # "running"

(* C17: when the manifest gives py_version and the command had to create   *)
(* the environment, then, unless the command aborted, the interpreter of   *)
(* the created environment satisfies py_version and the version directory  *)
(* the sync works in is the one the environment was created in.            *)
C17_CreatedEnvIsTheRightVersion ==
    (cfg.py_version # None /\ created_vers # None /\ (pc = "start" \/ SyncRunning)) =>
        /\ IsCompatible(cfg.py_version[1], alias[1])
        /\ vers_path = created_vers

(* C20: when the path `name` exists before the new command runs, every     *)
(* file that was under it has the same content after the command.          *)
C20_NewLeavesExistingProjectAlone ==
    (pc \in {"done", "panicked"} /\ project_before # None) =>
        IF project_before[1].kind = "file"
        THEN project = project_before
        ELSE \A f \in NewFiles :
                 project_before[1].files[f] # None =>
                     project[1].files[f] = project_before[1].files[f]

====
